---- MODULE Spec2Model ----
(***************************************************************************)
(* Model of octavia/controller/worker/v2/tasks/amphora_driver_tasks.py:    *)
(* the amphora driver tasks (execute / revert) acting on the entity store, *)
(* and the AmpRetry retry policy.                                          *)
(*                                                                         *)
(* Two specifications share the variables:                                 *)
(*   Spec      - the workflow engine invokes task execute / revert         *)
(*               methods, one whole invocation per step, against the       *)
(*               persistent store, and then takes the outcome;             *)
(*   SpecRetry - a task guarded by AmpRetry is attempted, each failed      *)
(*               attempt is appended to the history and on_failure decides.*)
(***************************************************************************)
EXTENDS Integers, Sequences, FiniteSets, TLC

\* ------------------------------------------------------------------ bounds
NumAmps == 2
NumListeners == 1
\* CONF.haproxy_amphora.connection_max_retries
ConnectionMaxRetries == 1
\* tasks of the retried subflow that can fail in one attempt
MaxFailedTasks == 2
\* ports added to one amphora (the length of added_ports[amphora.id])
NumPorts == 2

Amps == 1..NumAmps
Listeners == 1..NumListeners

\* --------------------------------------------------------------- constants
AMPHORA_ALLOCATED == "ALLOCATED"
AMPHORA_READY == "READY"
ERROR == "ERROR"
ACTIVE == "ACTIVE"
None == "None"

AmphoraStatuses == {AMPHORA_ALLOCATED, AMPHORA_READY, ERROR}
ProvisioningStatuses == {ACTIVE, ERROR}
\* the interface name the amphora agent reports
Interface == "eth1"
VrrpInterfaces == {None, Interface}

\* typed failures of the driver
AmpConnectionRetry == "AmpConnectionRetry"
TimeOutException == "TimeOutException"
AmpDriverNotImplementedError == "AmpDriverNotImplementedError"
GenericException == "Exception"
DriverErrors ==
    {AmpConnectionRetry, TimeOutException, AmpDriverNotImplementedError,
     GenericException}
DriverOutcomes == {"ok"} \cup DriverErrors
\* outcomes of a driver call made once per target of a fan-out task; the
\* handlers are "except Exception", one connectivity and one other error
FanOutOutcomes == {"ok", AmpConnectionRetry, GenericException}

\* faults of the entity store during one task invocation
StoreFaults == {"none", "get_raises", "update_raises"}

\* the result argument of revert: a taskflow Failure or execute's value
ResultKinds == {"Failure", "Value"}

VARIABLES
    db,        \* the persistent entity store
    call,      \* the most recent task invocation and its inputs
    pre,       \* the store as it was when that invocation started
    outcome,   \* "returned" or "raised"
    result,    \* the value the invocation returned
    writes,    \* the store updates the invocation made, in order
    exc,       \* the exception the invocation raised, None when it returned
    calls,     \* the calls to the driver and the agent config builder
    pc,        \* where a stepwise AmphoraUpdateVRRPInterface.execute stands
    history,   \* AmpRetry: the failures of each failed attempt, oldest first
    decision,  \* AmpRetry: the last decision of on_failure
    flow       \* AmpRetry: state of the flow around the retried task

taskVars == <<db, call, pre, outcome, result, writes, exc, calls, pc>>
retryVars == <<history, decision, flow>>
vars ==
    <<db, call, pre, outcome, result, writes, exc, calls, pc, history,
      decision, flow>>

\* ------------------------------------------------------------ entity store
\* db_lb.amphorae: the ordered amphora collection of the load balancer
lb_amphorae == [i \in 1..NumAmps |-> i]
\* db_lb.listeners
lb_listeners == [i \in 1..NumListeners |-> i]

Stores ==
    [amp_status : [Amps -> AmphoraStatuses],
     amp_vrrp : [Amps -> VrrpInterfaces],
     lb_exists : BOOLEAN,
     lb_status : ProvisioningStatuses,
     listener_status : [Listeners -> ProvisioningStatuses]]

Write(entity, id, field, value) ==
    [entity |-> entity, id |-> id, field |-> field, value |-> value]

\* amphora_repo.get(session, id=...): a snapshot of the stored amphora
amphora_repo_get(d, a) ==
    [id |-> a, status |-> d.amp_status[a], vrrp_interface |-> d.amp_vrrp[a]]

\* amphora_repo.update(session, id, status=...)
amphora_repo_update_status(d, a, value) ==
    [d EXCEPT !.amp_status[a] = value]

\* amphora_repo.update(session, id, vrrp_interface=...)
amphora_repo_update_vrrp_interface(d, a, value) ==
    [d EXCEPT !.amp_vrrp[a] = value]

\* the outcome of one invocation
\* an exception that is not one of the driver's: a store error, or the
\* AttributeError of reading a field of None
OtherError == "Error"
Outcome(d, o, r, w) ==
    [db |-> d, outcome |-> o, result |-> r, writes |-> w,
     exc |-> IF o = "raised" THEN OtherError ELSE None, calls |-> <<>>]
NoResult == [kind |-> "None", amphorae |-> <<>>]
Returned(d, w) == Outcome(d, "returned", NoResult, w)
Raised(d, w) == Outcome(d, "raised", NoResult, w)
\* the invocation raised exception e
RaisedWith(d, w, e) == [Raised(d, w) EXCEPT !.exc = e]
\* the invocation made these calls to its collaborators
WithCalls(out, cs) == [out EXCEPT !.calls = cs]
\* one call to the driver or to the agent config builder
DriverCall(op, a, arg) == [op |-> op, amphora |-> a, arg |-> arg]

\* CONF.controller_worker.loadbalancer_topology, flavor values
TOPOLOGY_SINGLE == "SINGLE"
TOPOLOGY_ACTIVE_STANDBY == "ACTIVE_STANDBY"
Topologies == {TOPOLOGY_SINGLE, TOPOLOGY_ACTIVE_STANDBY}
\* the flavor argument: None, or a dict that may hold the key
\* loadbalancer_topology and may hold other keys
NoFlavor ==
    [is_none |-> TRUE, has_topology |-> FALSE, topology |-> None,
     has_other |-> FALSE]
Flavors ==
    {NoFlavor}
    \cup [is_none : {FALSE}, has_topology : {FALSE}, topology : {None},
          has_other : BOOLEAN]
    \cup [is_none : {FALSE}, has_topology : {TRUE}, topology : Topologies,
          has_other : {FALSE}]

\* no stepwise execute is under way
Idle == [at |-> "idle", i |-> 0, stored |-> None]
NoCall ==
    [task |-> "none", method |-> "none", amphora |-> 0, amphora_index |-> 0,
     listener |-> 0, result |-> "none", drv |-> <<>>, fault |-> "none",
     flavor |-> NoFlavor, conf_topology |-> None, added_ports |-> {}]

\* --------------------------------------------------------------- AmpRetry
ExInfoKinds == {"None", "NoExcInfo", AmpConnectionRetry, TimeOutException}
\* last_errors: ex_info of the failed tasks in dict iteration order
FailureMaps ==
    UNION {[1..n -> ExInfoKinds] : n \in 0..MaxFailedTasks}

Absent(ex_info) == ex_info \in {"None", "NoExcInfo"}

\* faulty variant: the restored-flow case (ex_info None) is not retried
retry_item_ignores_absent(ex_info, history_len) ==
    /\ history_len <= ConnectionMaxRetries
    /\ ex_info = AmpConnectionRetry

\* faulty variant: the attempt bound is off by one
retry_item_off_by_one(ex_info, history_len) ==
    /\ history_len < ConnectionMaxRetries
    /\ (Absent(ex_info) \/ ex_info = AmpConnectionRetry)

\* faulty variant: absent failure info is retried outside the attempt bound
retry_item_absent_unbounded(ex_info, history_len) ==
    \/ Absent(ex_info)
    \/ /\ history_len <= ConnectionMaxRetries
       /\ ex_info = AmpConnectionRetry

\* faulty variant: the length of the history is not looked at
retry_item_no_bound(ex_info, history_len) ==
    \/ Absent(ex_info)
    \/ ex_info = AmpConnectionRetry

\* the body of the loop over last_errors.items(): TRUE when it returns RETRY
retry_item(ex_info, history_len) ==
    /\ history_len <= ConnectionMaxRetries
    /\ \/ Absent(ex_info)
       \/ ex_info = AmpConnectionRetry

RECURSIVE on_failure_items(_, _, _)
on_failure_items(last_errors, history_len, i) ==
    IF i > Len(last_errors) THEN "REVERT_ALL"
    ELSE IF retry_item(last_errors[i], history_len) THEN "RETRY"
         ELSE on_failure_items(last_errors, history_len, i + 1)

on_failure(h) == on_failure_items(h[Len(h)], Len(h), 1)

\* ---------------------------------------------------- AmpListenersUpdate
\* faulty variant: a successful update marks the amphora ALLOCATED
AmpListenersUpdate_execute_marks_allocated(d, amphora_index, drv, fault) ==
    LET amphora_id == lb_amphorae[amphora_index + 1]
        tryFailed == fault = "get_raises" \/ drv # "ok"
        cs == IF fault = "get_raises" THEN <<>>
              ELSE <<DriverCall("update_amphora_listeners", amphora_id, "")>>
    IN  IF fault = "update_raises" THEN WithCalls(Raised(d, <<>>), cs)
        ELSE IF ~tryFailed
        THEN WithCalls(
                 Returned(amphora_repo_update_status(d, amphora_id,
                                                     AMPHORA_ALLOCATED),
                          <<Write("amphora", amphora_id, "status",
                                  AMPHORA_ALLOCATED)>>),
                 cs)
        ELSE WithCalls(
                 Returned(amphora_repo_update_status(d, amphora_id, ERROR),
                          <<Write("amphora", amphora_id, "status", ERROR)>>),
                 cs)

\* faulty variant: the store reads are made before the try block
AmpListenersUpdate_execute_reads_outside_try(d, amphora_index, drv, fault) ==
    LET amphora_id == lb_amphorae[amphora_index + 1]
        cs == <<DriverCall("update_amphora_listeners", amphora_id, "")>>
    IN  IF fault = "get_raises" THEN Raised(d, <<>>)
        ELSE IF drv = "ok" THEN WithCalls(Returned(d, <<>>), cs)
        ELSE IF fault = "update_raises" THEN WithCalls(Raised(d, <<>>), cs)
        ELSE WithCalls(
                 Returned(amphora_repo_update_status(d, amphora_id, ERROR),
                          <<Write("amphora", amphora_id, "status", ERROR)>>),
                 cs)

\* the amphorae argument is the load balancer's amphora list and
\* amphora_index (0-based) an index into it; every store read and the
\* driver call are inside the try, the update of the handler is not
AmpListenersUpdate_execute(d, amphora_index, drv, fault) ==
    LET amphora_id == lb_amphorae[amphora_index + 1]
        tryFailed == fault = "get_raises" \/ drv # "ok"
        cs == IF fault = "get_raises" THEN <<>>
              ELSE <<DriverCall("update_amphora_listeners", amphora_id, "")>>
    IN  IF ~tryFailed THEN WithCalls(Returned(d, <<>>), cs)
        ELSE IF fault = "update_raises" THEN WithCalls(Raised(d, <<>>), cs)
        ELSE WithCalls(
                 Returned(amphora_repo_update_status(d, amphora_id, ERROR),
                          <<Write("amphora", amphora_id, "status", ERROR)>>),
                 cs)

\* ------------------------------------------------------------- task_utils
\* the progress of one invocation: the store, the updates made, the
\* amphorae collected for the result, and whether an exception is propagating
Acc(d) ==
    [db |-> d, writes |-> <<>>, amps |-> <<>>, raised |-> FALSE,
     exc |-> None, calls |-> <<>>]

\* TaskUtils.mark_amphora_status_error: a failing store update is logged
mark_amphora_status_error(acc, a, fault) ==
    IF fault = "update_raises" THEN acc
    ELSE [acc EXCEPT
            !.db = amphora_repo_update_status(@, a, ERROR),
            !.writes = Append(@, Write("amphora", a, "status", ERROR))]

\* TaskUtils.mark_loadbalancer_prov_status_error
mark_loadbalancer_prov_status_error(acc, fault) ==
    IF fault = "update_raises" THEN acc
    ELSE [acc EXCEPT
            !.db = IF @.lb_exists THEN [@ EXCEPT !.lb_status = ERROR] ELSE @,
            !.writes = Append(@, Write("loadbalancer", 1,
                                       "provisioning_status", ERROR))]

\* TaskUtils.mark_listener_prov_status_error
mark_listener_prov_status_error(acc, l, fault) ==
    IF fault = "update_raises" THEN acc
    ELSE [acc EXCEPT
            !.db = [@ EXCEPT !.listener_status[l] = ERROR],
            !.writes = Append(@, Write("listener", l,
                                       "provisioning_status", ERROR))]

Finish(acc) ==
    WithCalls(IF acc.raised
              THEN RaisedWith(acc.db, acc.writes,
                              IF acc.exc = None THEN OtherError ELSE acc.exc)
              ELSE Returned(acc.db, acc.writes),
              acc.calls)

\* loadbalancer_repo.get(...) raises, or returns None and db_lb.amphorae
\* then raises AttributeError
lb_unreadable(d, fault) == fault = "get_raises" \/ ~d.lb_exists

\* db_lb.amphorae as loaded by loadbalancer_repo.get
db_lb_amphorae(d) == [i \in 1..NumAmps |-> amphora_repo_get(d, lb_amphorae[i])]

\* lambda amp: amp.status == constants.AMPHORA_ALLOCATED
is_allocated(amp) == amp.status = AMPHORA_ALLOCATED

\* -------------------------------------------------------- ListenersUpdate
\* faulty variant: the driver is called whatever the store returned
ListenersUpdate_execute_unchecked(d, drv, fault) ==
    IF fault = "get_raises" THEN Raised(d, <<>>)
    ELSE WithCalls(IF drv = "ok" THEN Returned(d, <<>>)
                   ELSE RaisedWith(d, <<>>, drv),
                   <<DriverCall("update", 0, "")>>)

\* "if loadbalancer:" skips the driver when the record is not found
ListenersUpdate_execute(d, drv, fault) ==
    IF fault = "get_raises" THEN Raised(d, <<>>)
    ELSE IF ~d.lb_exists THEN Returned(d, <<>>)
    ELSE WithCalls(IF drv = "ok" THEN Returned(d, <<>>)
                   ELSE RaisedWith(d, <<>>, drv),
                   <<DriverCall("update", 0, "")>>)

RECURSIVE mark_listeners_error(_, _, _)
\* for listener in loadbalancer.listeners: mark_listener_prov_status_error
mark_listeners_error(acc, i, fault) ==
    IF i > Len(lb_listeners) THEN acc
    ELSE mark_listeners_error(
             mark_listener_prov_status_error(acc, lb_listeners[i], fault),
             i + 1, fault)

\* revert reads loadbalancer.listeners with no check of what get returned
ListenersUpdate_revert(d, fault) ==
    IF lb_unreadable(d, fault) THEN Raised(d, <<>>)
    ELSE Finish(mark_listeners_error(Acc(d), 1, fault))

\* --------------------------------------------------------- ListenersStart
ListenersStart_revert(d, fault) ==
    IF lb_unreadable(d, fault) THEN Raised(d, <<>>)
    ELSE Finish(mark_listeners_error(Acc(d), 1, fault))

\* --------------------------------------------------------- ListenerDelete
ListenerDelete_revert(d, listener, res, fault) ==
    Finish(mark_listener_prov_status_error(Acc(d), listener, fault))

\* -------------------------------------------------------- AmphoraFinalize
\* faulty variant: revert does not look at its result
AmphoraFinalize_revert_unguarded(d, amphora, res, fault) ==
    Finish(mark_amphora_status_error(Acc(d), amphora, fault))

AmphoraFinalize_revert(d, amphora, res, fault) ==
    IF res = "Failure" THEN Returned(d, <<>>)
    ELSE Finish(mark_amphora_status_error(Acc(d), amphora, fault))

\* ------------------------------------------------- AmphoraPostNetworkPlug
RECURSIVE post_network_plug_ports(_, _, _, _)
\* for port in ports: self.amphora_driver.post_network_plug(db_amp, port);
\* the driver's error leaves the loop and the method
post_network_plug_ports(acc, amphora, port, drv) ==
    IF port > NumPorts \/ acc.raised THEN acc
    ELSE post_network_plug_ports(
             [acc EXCEPT
                !.calls = Append(@, DriverCall("post_network_plug",
                                               amphora, port)),
                !.raised = drv[amphora] # "ok",
                !.exc = IF drv[amphora] # "ok" THEN drv[amphora] ELSE @],
             amphora, port + 1, drv)

AmphoraPostNetworkPlug_execute(acc, amphora, drv) ==
    post_network_plug_ports(acc, amphora, 1, drv)

RECURSIVE post_network_plug_loop_continues(_, _, _, _, _)
\* faulty variant: the loop goes on to the next amphora after a failure
post_network_plug_loop_continues(acc, amphorae, i, added_ports, drv) ==
    IF i > Len(amphorae) THEN acc
    ELSE LET step == AmphoraPostNetworkPlug_execute(
                         [acc EXCEPT !.raised = FALSE], amphorae[i].id, drv)
         IN  post_network_plug_loop_continues(
                 IF amphorae[i].id \in added_ports
                 THEN [step EXCEPT !.raised = acc.raised \/ @,
                                   !.exc = IF acc.raised THEN acc.exc ELSE @]
                 ELSE acc,
                 amphorae, i + 1, added_ports, drv)

RECURSIVE post_network_plug_loop(_, _, _, _, _)
\* for amphora in db_lb.amphorae: if amphora.id in added_ports: execute
post_network_plug_loop(acc, amphorae, i, added_ports, drv) ==
    IF i > Len(amphorae) \/ acc.raised THEN acc
    ELSE post_network_plug_loop(
             IF amphorae[i].id \in added_ports
             THEN AmphoraPostNetworkPlug_execute(acc, amphorae[i].id, drv)
             ELSE acc,
             amphorae, i + 1, added_ports, drv)

\* added_ports is given by its keys; every key has NumPorts ports
AmphoraePostNetworkPlug_execute(d, added_ports, drv, fault) ==
    IF lb_unreadable(d, fault) THEN Raised(d, <<>>)
    ELSE Finish(post_network_plug_loop(Acc(d), db_lb_amphorae(d), 1,
                                       added_ports, drv))

AmphoraPostNetworkPlug_revert(d, amphora, res, fault) ==
    IF res = "Failure" THEN Returned(d, <<>>)
    ELSE Finish(mark_amphora_status_error(Acc(d), amphora, fault))

\* ------------------------------------------------ AmphoraePostNetworkPlug
RECURSIVE mark_amphorae_error(_, _, _, _)
mark_amphorae_error(acc, targets, i, fault) ==
    IF i > Len(targets) THEN acc
    ELSE mark_amphorae_error(
             mark_amphora_status_error(acc, targets[i].id, fault),
             targets, i + 1, fault)

AmphoraePostNetworkPlug_revert(d, res, fault) ==
    IF res = "Failure" THEN Returned(d, <<>>)
    ELSE IF lb_unreadable(d, fault) THEN Raised(d, <<>>)
    ELSE Finish(mark_amphorae_error(
                    Acc(d), SelectSeq(db_lb_amphorae(d), is_allocated),
                    1, fault))

\* ----------------------------------------------------- AmphoraPostVIPPlug
\* the amphora and the load balancer are read again, then post_vip_plug
AmphoraPostVIPPlug_execute(acc, amphora, drv) ==
    [acc EXCEPT
        !.calls = Append(@, DriverCall("post_vip_plug", amphora, "")),
        !.raised = drv[amphora] # "ok",
        !.exc = IF drv[amphora] # "ok" THEN drv[amphora] ELSE @]

RECURSIVE post_vip_plug_loop(_, _, _, _)
\* for amphora in db_lb.amphorae: amp_post_vip_plug.execute(...)
post_vip_plug_loop(acc, amphorae, i, drv) ==
    IF i > Len(amphorae) \/ acc.raised THEN acc
    ELSE post_vip_plug_loop(
             AmphoraPostVIPPlug_execute(acc, amphorae[i].id, drv),
             amphorae, i + 1, drv)

AmphoraePostVIPPlug_execute(d, drv, fault) ==
    IF lb_unreadable(d, fault) THEN Raised(d, <<>>)
    ELSE Finish(post_vip_plug_loop(Acc(d), db_lb_amphorae(d), 1, drv))

\* faulty variant: revert marks the load balancer only
AmphoraPostVIPPlug_revert_lb_only(d, amphora, res, fault) ==
    IF res = "Failure" THEN Returned(d, <<>>)
    ELSE Finish(mark_loadbalancer_prov_status_error(Acc(d), fault))

AmphoraPostVIPPlug_revert(d, amphora, res, fault) ==
    IF res = "Failure" THEN Returned(d, <<>>)
    ELSE Finish(mark_loadbalancer_prov_status_error(
                    mark_amphora_status_error(Acc(d), amphora, fault),
                    fault))

\* ---------------------------------------------------- AmphoraePostVIPPlug
AmphoraePostVIPPlug_revert(d, res, fault) ==
    IF res = "Failure" THEN Returned(d, <<>>)
    ELSE Finish(mark_loadbalancer_prov_status_error(Acc(d), fault))

\* --------------------------------------------- AmphoraUpdateVRRPInterface
\* provider_utils.db_loadbalancer_to_provider_loadbalancer(db_lb).to_dict()
\* after db_lb.amphorae = amps
db_loadbalancer_to_provider_loadbalancer(amps) ==
    [kind |-> "loadbalancer", amphorae |-> amps]

\* faulty variant: the failure of one amphora is not caught
get_vrrp_interface_target_uncaught(acc, amp, drv, fault) ==
    IF acc.raised THEN acc
    ELSE IF drv # "ok" \/ fault = "update_raises"
    THEN [acc EXCEPT
            !.raised = TRUE,
            !.calls = Append(@, DriverCall("get_vrrp_interface", amp.id, ""))]
    ELSE LET d2 == amphora_repo_update_vrrp_interface(acc.db, amp.id, Interface)
         IN  [acc EXCEPT
                !.calls = Append(@, DriverCall("get_vrrp_interface",
                                               amp.id, "")),
                !.db = d2,
                !.writes = Append(@, Write("amphora", amp.id,
                                           "vrrp_interface", Interface)),
                !.amps = Append(@, amphora_repo_get(d2, amp.id))]

\* faulty variant: the snapshot read before the update is collected
get_vrrp_interface_target_stale(acc, amp, drv, fault) ==
    IF acc.raised THEN acc
    ELSE IF fault = "update_raises"
    THEN [acc EXCEPT
            !.raised = TRUE,
            !.calls = Append(@, DriverCall("get_vrrp_interface", amp.id, ""))]
    ELSE IF drv # "ok"
    THEN [acc EXCEPT
            !.calls = Append(@, DriverCall("get_vrrp_interface", amp.id, "")),
            !.db = amphora_repo_update_status(@, amp.id, ERROR),
            !.writes = Append(@, Write("amphora", amp.id, "status", ERROR))]
    ELSE [acc EXCEPT
            !.calls = Append(@, DriverCall("get_vrrp_interface", amp.id, "")),
            !.db = amphora_repo_update_vrrp_interface(@, amp.id, Interface),
            !.writes = Append(@, Write("amphora", amp.id,
                                       "vrrp_interface", Interface)),
            !.amps = Append(@, amp)]

\* one iteration of the loop of execute over the ALLOCATED amphorae
get_vrrp_interface_target(acc, amp, drv, fault) ==
    IF acc.raised THEN acc
    ELSE IF fault = "update_raises"
    THEN [acc EXCEPT
            !.raised = TRUE,
            !.calls = Append(@, DriverCall("get_vrrp_interface", amp.id, ""))]
    ELSE IF drv # "ok"
    THEN [acc EXCEPT
            !.calls = Append(@, DriverCall("get_vrrp_interface", amp.id, "")),
            !.db = amphora_repo_update_status(@, amp.id, ERROR),
            !.writes = Append(@, Write("amphora", amp.id, "status", ERROR))]
    ELSE LET d2 == amphora_repo_update_vrrp_interface(acc.db, amp.id, Interface)
         IN  [acc EXCEPT
                !.calls = Append(@, DriverCall("get_vrrp_interface",
                                               amp.id, "")),
                !.db = d2,
                !.writes = Append(@, Write("amphora", amp.id,
                                           "vrrp_interface", Interface)),
                !.amps = Append(@, amphora_repo_get(d2, amp.id))]

RECURSIVE get_vrrp_interface_loop(_, _, _, _, _)
get_vrrp_interface_loop(acc, targets, i, drv, fault) ==
    IF i > Len(targets) THEN acc
    ELSE get_vrrp_interface_loop(
             get_vrrp_interface_target(acc, targets[i], drv[targets[i].id],
                                       fault),
             targets, i + 1, drv, fault)

AmphoraUpdateVRRPInterface_execute(d, drv, fault) ==
    IF lb_unreadable(d, fault) THEN Raised(d, <<>>)
    ELSE LET acc == get_vrrp_interface_loop(
                        Acc(d), SelectSeq(db_lb_amphorae(d), is_allocated),
                        1, drv, fault)
         IN  IF acc.raised THEN Finish(acc)
             ELSE WithCalls(
                      Outcome(acc.db, "returned",
                              db_loadbalancer_to_provider_loadbalancer(
                                  acc.amps),
                              acc.writes),
                      acc.calls)

\* faulty variant: revert marks the amphora ERROR instead of clearing the interface
clear_vrrp_interface_target_marks_error(acc, amp, fault) ==
    mark_amphora_status_error(acc, amp.id, fault)

\* one iteration of the loop of revert: the failing update is caught
clear_vrrp_interface_target(acc, amp, fault) ==
    IF fault = "update_raises" THEN acc
    ELSE [acc EXCEPT
            !.db = amphora_repo_update_vrrp_interface(@, amp.id, None),
            !.writes = Append(@, Write("amphora", amp.id,
                                       "vrrp_interface", None))]

RECURSIVE clear_vrrp_interface_loop(_, _, _, _)
clear_vrrp_interface_loop(acc, targets, i, fault) ==
    IF i > Len(targets) THEN acc
    ELSE clear_vrrp_interface_loop(
             clear_vrrp_interface_target(acc, targets[i], fault),
             targets, i + 1, fault)

AmphoraUpdateVRRPInterface_revert(d, res, fault) ==
    IF res = "Failure" THEN Returned(d, <<>>)
    ELSE IF lb_unreadable(d, fault) THEN Raised(d, <<>>)
    ELSE Finish(clear_vrrp_interface_loop(
                    Acc(d), SelectSeq(db_lb_amphorae(d), is_allocated),
                    1, fault))

\* ----------------------------------------- AmphoraComputeConnectivityWait
\* faulty variant: the timeout is not raised again after the update
AmphoraComputeConnectivityWait_execute_swallows(d, amphora, drv, fault) ==
    IF fault = "get_raises" THEN Raised(d, <<>>)
    ELSE WithCalls(
             IF drv = "ok" THEN Returned(d, <<>>)
             ELSE IF drv = TimeOutException
             THEN IF fault = "update_raises" THEN Raised(d, <<>>)
                  ELSE Returned(
                           amphora_repo_update_status(d, amphora, ERROR),
                           <<Write("amphora", amphora, "status", ERROR)>>)
             ELSE RaisedWith(d, <<>>, drv),
             <<DriverCall("get_info", amphora, "")>>)

\* faulty variant: the amphora is marked ALLOCATED once it answers
AmphoraComputeConnectivityWait_execute_marks(d, amphora, drv, fault) ==
    IF fault = "get_raises" THEN Raised(d, <<>>)
    ELSE WithCalls(
             IF drv = "ok"
             THEN IF fault = "update_raises" THEN Raised(d, <<>>)
                  ELSE Returned(
                           amphora_repo_update_status(d, amphora,
                                                      AMPHORA_ALLOCATED),
                           <<Write("amphora", amphora, "status",
                                   AMPHORA_ALLOCATED)>>)
             ELSE IF drv = TimeOutException
             THEN IF fault = "update_raises" THEN Raised(d, <<>>)
                  ELSE RaisedWith(
                           amphora_repo_update_status(d, amphora, ERROR),
                           <<Write("amphora", amphora, "status", ERROR)>>,
                           TimeOutException)
             ELSE RaisedWith(d, <<>>, drv),
             <<DriverCall("get_info", amphora, "")>>)

\* the raise_retry_exception argument is only handed on to the driver;
\* amp_info is logged and execute has no return statement
AmphoraComputeConnectivityWait_execute(d, amphora, drv, fault) ==
    IF fault = "get_raises" THEN Raised(d, <<>>)
    ELSE WithCalls(
             IF drv = "ok" THEN Returned(d, <<>>)
             ELSE IF drv = TimeOutException
             THEN IF fault = "update_raises" THEN Raised(d, <<>>)
                  ELSE RaisedWith(
                           amphora_repo_update_status(d, amphora, ERROR),
                           <<Write("amphora", amphora, "status", ERROR)>>,
                           TimeOutException)
             ELSE RaisedWith(d, <<>>, drv),
             <<DriverCall("get_info", amphora, "")>>)

\* ------------------------------------------------------ AmphoraConfigUpdate
\* faulty variant: the flavor is not consulted
select_topology_ignores_flavor(flavor, conf_topology) == conf_topology

\* "if flavor:" is false for None and for an empty flavor; flavor.get(key,
\* default) yields the default when the key is absent
select_topology(flavor, conf_topology) ==
    IF flavor.is_none \/ (~flavor.has_topology /\ ~flavor.has_other)
    THEN conf_topology
    ELSE IF flavor.has_topology THEN flavor.topology ELSE conf_topology

\* faulty variant: every driver error is logged and dropped
AmphoraConfigUpdate_execute_lenient(d, amphora, flavor, conf_topology, drv, fault) ==
    LET topology == select_topology(flavor, conf_topology)
        build == DriverCall("build_agent_config", amphora, topology)
        push == DriverCall("update_amphora_agent_config", amphora, topology)
    IN  IF fault = "get_raises" THEN WithCalls(Raised(d, <<>>), <<build>>)
        ELSE WithCalls(Returned(d, <<>>), <<build, push>>)

AmphoraConfigUpdate_execute(d, amphora, flavor, conf_topology, drv, fault) ==
    LET topology == select_topology(flavor, conf_topology)
        build == DriverCall("build_agent_config", amphora, topology)
        push == DriverCall("update_amphora_agent_config", amphora, topology)
    IN  IF fault = "get_raises" THEN WithCalls(Raised(d, <<>>), <<build>>)
        ELSE WithCalls(
                 IF drv \in {"ok", AmpDriverNotImplementedError}
                 THEN Returned(d, <<>>)
                 ELSE RaisedWith(d, <<>>, drv),
                 <<build, push>>)

\* ------------------------------------------------------------ the engine
\* the engine runs one task method at a time, to completion
Invoke(c, r) ==
    /\ call = NoCall
    /\ pre' = db
    /\ call' = c
    /\ db' = r.db
    /\ outcome' = r.outcome
    /\ result' = r.result
    /\ writes' = r.writes
    /\ exc' = r.exc
    /\ calls' = r.calls
    /\ UNCHANGED pc
    /\ UNCHANGED retryVars

Call(task, method) == [NoCall EXCEPT !.task = task, !.method = method]

ExecAmpListenersUpdate ==
    \E i \in 0..(NumAmps - 1), drv \in DriverOutcomes, fault \in StoreFaults :
        Invoke([Call("AmpListenersUpdate", "execute") EXCEPT
                    !.amphora_index = i, !.amphora = lb_amphorae[i + 1],
                    !.drv = <<drv>>, !.fault = fault],
               AmpListenersUpdate_execute(db, i, drv, fault))

ExecListenersUpdate ==
    \E drv \in DriverOutcomes, fault \in {"none", "get_raises"} :
        Invoke([Call("ListenersUpdate", "execute") EXCEPT
                    !.drv = <<drv>>, !.fault = fault],
               ListenersUpdate_execute(db, drv, fault))

RevertListenersUpdate ==
    \E fault \in StoreFaults :
        Invoke([Call("ListenersUpdate", "revert") EXCEPT !.fault = fault],
               ListenersUpdate_revert(db, fault))

RevertListenersStart ==
    \E fault \in StoreFaults :
        Invoke([Call("ListenersStart", "revert") EXCEPT !.fault = fault],
               ListenersStart_revert(db, fault))

RevertListenerDelete ==
    \E l \in Listeners, res \in ResultKinds, fault \in StoreFaults :
        Invoke([Call("ListenerDelete", "revert") EXCEPT
                    !.listener = l, !.result = res, !.fault = fault],
               ListenerDelete_revert(db, l, res, fault))

RevertAmphoraFinalize ==
    \E a \in Amps, res \in ResultKinds, fault \in StoreFaults :
        Invoke([Call("AmphoraFinalize", "revert") EXCEPT
                    !.amphora = a, !.result = res, !.fault = fault],
               AmphoraFinalize_revert(db, a, res, fault))

RevertAmphoraPostNetworkPlug ==
    \E a \in Amps, res \in ResultKinds, fault \in StoreFaults :
        Invoke([Call("AmphoraPostNetworkPlug", "revert") EXCEPT
                    !.amphora = a, !.result = res, !.fault = fault],
               AmphoraPostNetworkPlug_revert(db, a, res, fault))

\* the driver is reached only for the keys of added_ports, and not at all
\* when the read of the load balancer raises: one outcome stands for all
\* where no call is made
ExecAmphoraePostNetworkPlug ==
    \E fault \in {"none", "get_raises"}, added_ports \in SUBSET Amps :
    \E drv \in {f \in [Amps -> FanOutOutcomes] :
                    \A a \in Amps :
                        (fault # "none" \/ a \notin added_ports)
                            => f[a] = "ok"} :
        Invoke([Call("AmphoraePostNetworkPlug", "execute") EXCEPT
                    !.added_ports = added_ports, !.drv = drv,
                    !.fault = fault],
               AmphoraePostNetworkPlug_execute(db, added_ports, drv, fault))

RevertAmphoraePostNetworkPlug ==
    \E res \in ResultKinds, fault \in StoreFaults :
        Invoke([Call("AmphoraePostNetworkPlug", "revert") EXCEPT
                    !.result = res, !.fault = fault],
               AmphoraePostNetworkPlug_revert(db, res, fault))

RevertAmphoraPostVIPPlug ==
    \E a \in Amps, res \in ResultKinds, fault \in StoreFaults :
        Invoke([Call("AmphoraPostVIPPlug", "revert") EXCEPT
                    !.amphora = a, !.result = res, !.fault = fault],
               AmphoraPostVIPPlug_revert(db, a, res, fault))

ExecAmphoraePostVIPPlug ==
    \E fault \in {"none", "get_raises"} :
    \E drv \in IF fault = "none" THEN [Amps -> FanOutOutcomes]
                ELSE {[a \in Amps |-> "ok"]} :
        Invoke([Call("AmphoraePostVIPPlug", "execute") EXCEPT
                    !.drv = drv, !.fault = fault],
               AmphoraePostVIPPlug_execute(db, drv, fault))

RevertAmphoraePostVIPPlug ==
    \E res \in ResultKinds, fault \in StoreFaults :
        Invoke([Call("AmphoraePostVIPPlug", "revert") EXCEPT
                    !.result = res, !.fault = fault],
               AmphoraePostVIPPlug_revert(db, res, fault))

ExecAmphoraUpdateVRRPInterface ==
    \E drv \in [Amps -> FanOutOutcomes], fault \in StoreFaults :
        Invoke([Call("AmphoraUpdateVRRPInterface", "execute") EXCEPT
                    !.drv = drv, !.fault = fault],
               AmphoraUpdateVRRPInterface_execute(db, drv, fault))

RevertAmphoraUpdateVRRPInterface ==
    \E res \in ResultKinds, fault \in StoreFaults :
        Invoke([Call("AmphoraUpdateVRRPInterface", "revert") EXCEPT
                    !.result = res, !.fault = fault],
               AmphoraUpdateVRRPInterface_revert(db, res, fault))

ExecAmphoraComputeConnectivityWait ==
    \E a \in Amps, drv \in DriverOutcomes, fault \in StoreFaults :
        Invoke([Call("AmphoraComputeConnectivityWait", "execute") EXCEPT
                    !.amphora = a, !.drv = <<drv>>, !.fault = fault],
               AmphoraComputeConnectivityWait_execute(db, a, drv, fault))

ExecAmphoraConfigUpdate ==
    \E a \in Amps, flavor \in Flavors, conf_topology \in Topologies,
       fault \in {"none", "get_raises"} :
    \E drv \in IF fault = "none" THEN DriverOutcomes ELSE {"ok"} :
        Invoke([Call("AmphoraConfigUpdate", "execute") EXCEPT
                    !.amphora = a, !.flavor = flavor,
                    !.conf_topology = conf_topology,
                    !.drv = <<drv>>, !.fault = fault],
               AmphoraConfigUpdate_execute(db, a, flavor, conf_topology,
                                           drv, fault))

\* the engine has taken the outcome of the invocation and goes on
Collect ==
    /\ call # NoCall
    /\ call' = NoCall
    /\ pre' = db
    /\ outcome' = "none"
    /\ result' = NoResult
    /\ writes' = <<>>
    /\ exc' = None
    /\ calls' = <<>>
    /\ UNCHANGED pc
    /\ UNCHANGED db
    /\ UNCHANGED retryVars

Init ==
    /\ db \in Stores
    /\ call = NoCall
    /\ pre = db
    /\ outcome = "none"
    /\ result = NoResult
    /\ writes = <<>>
    /\ exc = None
    /\ calls = <<>>
    /\ pc = Idle
    /\ history = <<>>
    /\ decision = "none"
    /\ flow = "IDLE"

Next ==
    \/ ExecAmpListenersUpdate
    \/ RevertListenerDelete
    \/ RevertAmphoraFinalize
    \/ RevertAmphoraPostNetworkPlug
    \/ RevertAmphoraePostNetworkPlug
    \/ RevertAmphoraPostVIPPlug
    \/ RevertAmphoraePostVIPPlug
    \/ ExecAmphoraUpdateVRRPInterface
    \/ RevertAmphoraUpdateVRRPInterface
    \/ ExecAmphoraePostNetworkPlug
    \/ ExecAmphoraePostVIPPlug
    \/ ExecListenersUpdate
    \/ RevertListenersUpdate
    \/ RevertListenersStart
    \/ ExecAmphoraComputeConnectivityWait
    \/ ExecAmphoraConfigUpdate
    \/ Collect

Spec == Init /\ [][Next]_vars

\* ---------------------- AmphoraUpdateVRRPInterface.execute, step by step
\* execute as the sequence of its store and driver operations, so that the
\* updates of another worker can fall between them. pc.at is the operation
\* to do next, pc.i the position in the filtered snapshot, pc.stored the
\* status the store held for the amphora when vrrp_interface was written

\* filter(lambda amp: amp.status == AMPHORA_ALLOCATED, db_lb.amphorae) on
\* the snapshot d read at the start
vrrp_targets(d) == SelectSeq(db_lb_amphorae(d), is_allocated)

\* the head of the for loop: the next target, or the end of the loop
loop_head(d, i) ==
    [at |-> IF i > Len(vrrp_targets(d)) THEN "return" ELSE "driver",
     i |-> i, stored |-> None]

\* db_lb = self.loadbalancer_repo.get(...)
VRRPReadSnapshot ==
    /\ pc.at = "idle"
    /\ call = NoCall
    /\ db.lb_exists
    /\ \E drv \in [Amps -> FanOutOutcomes] :
          call' = [Call("AmphoraUpdateVRRPInterface", "execute") EXCEPT
                      !.drv = drv]
    /\ pre' = db
    /\ pc' = loop_head(db, 1)
    /\ UNCHANGED <<db, outcome, result, writes, exc, calls>>
    /\ UNCHANGED retryVars

\* interface = self.amphora_driver.get_vrrp_interface(amp, ...)
VRRPDriverCall ==
    /\ pc.at = "driver"
    /\ calls' = Append(calls, DriverCall("get_vrrp_interface",
                                         vrrp_targets(pre)[pc.i].id, ""))
    /\ pc' = [pc EXCEPT !.at = "update"]
    /\ UNCHANGED <<db, call, pre, outcome, result, writes, exc>>
    /\ UNCHANGED retryVars

\* the update of the except branch (status=ERROR, then continue) or the
\* update of vrrp_interface; neither looks at the stored status
VRRPUpdate ==
    /\ pc.at = "update"
    /\ LET a == vrrp_targets(pre)[pc.i].id
       IN  IF call.drv[a] # "ok"
           THEN /\ db' = amphora_repo_update_status(db, a, ERROR)
                /\ writes' = Append(writes,
                                    Write("amphora", a, "status", ERROR))
                /\ pc' = loop_head(pre, pc.i + 1)
           ELSE /\ db' = amphora_repo_update_vrrp_interface(db, a, Interface)
                /\ writes' = Append(writes,
                                    Write("amphora", a, "vrrp_interface",
                                          Interface))
                /\ pc' = [pc EXCEPT !.at = "get",
                                    !.stored = db.amp_status[a]]
    /\ UNCHANGED <<call, pre, outcome, result, exc, calls>>
    /\ UNCHANGED retryVars

\* amps.append(self.amphora_repo.get(db_apis.get_session(), id=amp.id))
VRRPReread ==
    /\ pc.at = "get"
    /\ result' = [result EXCEPT
                     !.amphorae =
                         Append(@, amphora_repo_get(
                                       db, vrrp_targets(pre)[pc.i].id))]
    /\ pc' = loop_head(pre, pc.i + 1)
    /\ UNCHANGED <<db, call, pre, outcome, writes, exc, calls>>
    /\ UNCHANGED retryVars

\* db_lb.amphorae = amps; return the provider load balancer
VRRPReturn ==
    /\ pc.at = "return"
    /\ result' = db_loadbalancer_to_provider_loadbalancer(result.amphorae)
    /\ outcome' = "returned"
    /\ pc' = [pc EXCEPT !.at = "done"]
    /\ UNCHANGED <<db, call, pre, writes, exc, calls>>
    /\ UNCHANGED retryVars

\* another worker's task marks an amphora of the same load balancer ERROR
\* (the update of AmpListenersUpdate.execute's handler, in another flow)
OtherWorkerMarksError ==
    /\ pc.at # "done"
    /\ \E a \in Amps :
          /\ db.amp_status[a] # ERROR
          /\ db' = amphora_repo_update_status(db, a, ERROR)
    /\ UNCHANGED <<call, pre, outcome, result, writes, exc, calls, pc>>
    /\ UNCHANGED retryVars

InitConcurrent ==
    /\ db \in {d \in Stores :
                 /\ d.lb_exists
                 /\ d.lb_status = ACTIVE
                 /\ \A a \in Amps : d.amp_vrrp[a] = None
                 /\ \A l \in Listeners : d.listener_status[l] = ACTIVE}
    /\ call = NoCall
    /\ pre = db
    /\ outcome = "none"
    /\ result = NoResult
    /\ writes = <<>>
    /\ exc = None
    /\ calls = <<>>
    /\ pc = Idle
    /\ history = <<>>
    /\ decision = "none"
    /\ flow = "IDLE"

NextConcurrent ==
    \/ VRRPReadSnapshot
    \/ VRRPDriverCall
    \/ VRRPUpdate
    \/ VRRPReread
    \/ VRRPReturn
    \/ OtherWorkerMarksError

SpecConcurrent == InitConcurrent /\ [][NextConcurrent]_vars

\* ------------------------------------------------------- the retried task
MaxHistory == ConnectionMaxRetries + 2

AttemptFails ==
    /\ flow = "RUNNING"
    /\ Len(history) < MaxHistory
    /\ \E last_errors \in FailureMaps :
          LET h == Append(history, last_errors)
              dec == on_failure(h)
          IN  /\ history' = h
              /\ decision' = dec
              /\ flow' = IF dec = "RETRY" THEN "RUNNING" ELSE "REVERTED"
    /\ UNCHANGED taskVars

AttemptSucceeds ==
    /\ flow = "RUNNING"
    /\ flow' = "SUCCESS"
    /\ UNCHANGED <<history, decision>>
    /\ UNCHANGED taskVars

InitRetry ==
    /\ db \in {d \in Stores :
                 /\ d.lb_exists
                 /\ d.lb_status = ACTIVE
                 /\ \A a \in Amps : d.amp_status[a] = AMPHORA_ALLOCATED
                 /\ \A a \in Amps : d.amp_vrrp[a] = None
                 /\ \A l \in Listeners : d.listener_status[l] = ACTIVE}
    /\ call = NoCall
    /\ pre = db
    /\ outcome = "none"
    /\ result = NoResult
    /\ writes = <<>>
    /\ exc = None
    /\ calls = <<>>
    /\ pc = Idle
    /\ history = <<>>
    /\ decision = "none"
    /\ flow = "RUNNING"

NextRetry ==
    \/ AttemptFails
    \/ AttemptSucceeds

SpecRetry == InitRetry /\ [][NextRetry]_vars

\* the retried subflow when every attempt fails: the engine runs the next
\* attempt as long as on_failure answers RETRY
SpecEveryAttemptFails ==
    InitRetry /\ [][AttemptFails]_vars /\ WF_vars(AttemptFails)

\* ------------------------------------------------- claims: the retry policy
LastErrors == history[Len(history)]
SomeAbsent == \E i \in 1..Len(LastErrors) : Absent(LastErrors[i])
AllAbsent ==
    /\ Len(LastErrors) > 0
    /\ \A i \in 1..Len(LastErrors) : Absent(LastErrors[i])
SomeConnectionRetry ==
    \E i \in 1..Len(LastErrors) : LastErrors[i] = AmpConnectionRetry
SomeOtherFailure ==
    \E i \in 1..Len(LastErrors) :
        ~Absent(LastErrors[i]) /\ LastErrors[i] # AmpConnectionRetry

\* C4 (as stated): absent failure info in the most recent attempt gives
\* RETRY for every history length, also beyond connection_max_retries.
C4_AbsentAlwaysRetries ==
    (history # <<>> /\ AllAbsent) => decision = "RETRY"

\* C4 (amended): absent failure info in the most recent attempt gives RETRY
\* when the history length is at most connection_max_retries, and
\* REVERT_ALL when the history is longer.
C4_AbsentRetriesWithinBound ==
    /\ (/\ history # <<>>
        /\ Len(history) <= ConnectionMaxRetries
        /\ SomeAbsent)
       => decision = "RETRY"
    /\ (/\ history # <<>>
        /\ Len(history) > ConnectionMaxRetries
        /\ SomeAbsent)
       => decision = "REVERT_ALL"

C4_Witness ==
    /\ Len(history) = ConnectionMaxRetries
    /\ LastErrors = <<TimeOutException, "None">>
    /\ decision = "RETRY"

\* C5: a present AmpConnectionRetry failure in the most recent attempt and a
\* history length of at most connection_max_retries give RETRY.
C5_ConnectionRetryRetries ==
    (/\ history # <<>>
     /\ Len(history) <= ConnectionMaxRetries
     /\ SomeConnectionRetry)
        => decision = "RETRY"

C5_Witness ==
    /\ Len(history) = ConnectionMaxRetries
    /\ LastErrors = <<AmpConnectionRetry>>
    /\ decision = "RETRY"

\* C6: a history longer than connection_max_retries gives REVERT_ALL,
\* whatever the failures of the most recent attempt are.
C6_BeyondBoundAborts ==
    (history # <<>> /\ Len(history) > ConnectionMaxRetries)
        => decision = "REVERT_ALL"

C6_Witness ==
    /\ Len(history) = ConnectionMaxRetries + 1
    /\ LastErrors = <<"None", AmpConnectionRetry>>
    /\ decision = "REVERT_ALL"

\* C7: a present failure that is not an AmpConnectionRetry in the most
\* recent attempt gives REVERT_ALL, also within the attempt bound and also
\* when another failure of the same attempt is retryable.
C7_OtherFailureAborts ==
    (history # <<>> /\ SomeOtherFailure) => decision = "REVERT_ALL"

\* ---------------------------------------------------- claims: the tasks
Is(task, method) == call.task = task /\ call.method = method
IsStatusWrite(w) == w.field \in {"status", "provisioning_status"}
StatusWrites == SelectSeq(writes, IsStatusWrite)
AllocatedBefore == {a \in Amps : pre.amp_status[a] = AMPHORA_ALLOCATED}
SameStatuses ==
    /\ db.amp_status = pre.amp_status
    /\ db.lb_status = pre.lb_status
    /\ db.listener_status = pre.listener_status
\* exactly target t fails, with a non-connectivity error; StatusWrites,
\* the store and the outcome show that only t was marked ERROR
OnlyMarkedError(t) ==
    /\ outcome = "returned"
    /\ StatusWrites = <<Write("amphora", t, "status", ERROR)>>
    /\ db.amp_status[t] = ERROR
    /\ \A a \in Amps \ {t} : db.amp_status[a] = pre.amp_status[a]

\* C1: in a fan-out execute (AmphoraUpdateVRRPInterface over the ALLOCATED
\* amphorae, AmpListenersUpdate for the amphora at amphora_index) where the
\* driver call of exactly one target raises a non-connectivity error,
\* execute returns, exactly that target is written ERROR and every other
\* amphora keeps its status.
C1_FanOutIsolatesOneFailure ==
    /\ (/\ Is("AmphoraUpdateVRRPInterface", "execute")
        /\ call.fault = "none"
        /\ pre.lb_exists)
       => \A t \in AllocatedBefore :
              (/\ call.drv[t] = GenericException
               /\ \A a \in AllocatedBefore \ {t} : call.drv[a] = "ok")
              => OnlyMarkedError(t)
    /\ (/\ Is("AmpListenersUpdate", "execute")
        /\ call.fault = "none"
        /\ call.drv[1] \in DriverErrors \ {AmpConnectionRetry})
       => OnlyMarkedError(call.amphora)

C1_Witness ==
    /\ Is("AmphoraUpdateVRRPInterface", "execute")
    /\ call.fault = "none"
    /\ pre.lb_exists
    /\ Cardinality(AllocatedBefore) >= 2
    /\ \E t \in AllocatedBefore :
          /\ call.drv[t] = GenericException
          /\ \A a \in AllocatedBefore \ {t} : call.drv[a] = "ok"
          /\ db.amp_status[t] = ERROR
    /\ outcome = "returned"

SingleTargetReverts ==
    {"ListenerDelete", "AmphoraFinalize", "AmphoraPostNetworkPlug",
     "AmphoraPostVIPPlug"}
GuardedSingleTargetReverts ==
    {"AmphoraFinalize", "AmphoraPostNetworkPlug", "AmphoraPostVIPPlug"}

\* C2 (as stated): revert of a single-target task invoked with a failure
\* marker changes no entity status.
C2_OwnFailureRevertChangesNothing ==
    (/\ call.task \in SingleTargetReverts
     /\ call.method = "revert"
     /\ call.result = "Failure")
        => SameStatuses

\* C2 (amended): revert of AmphoraFinalize, AmphoraPostNetworkPlug and
\* AmphoraPostVIPPlug invoked with a failure marker updates nothing in the
\* store; ListenerDelete.revert does not look at its result and marks the
\* listener ERROR also then.
C2_GuardedRevertChangesNothing ==
    /\ (/\ call.task \in GuardedSingleTargetReverts
        /\ call.method = "revert"
        /\ call.result = "Failure")
       => (outcome = "returned" /\ writes = <<>> /\ db = pre)
    /\ (/\ Is("ListenerDelete", "revert")
        /\ call.result = "Failure"
        /\ call.fault # "update_raises")
       => /\ outcome = "returned"
          /\ db = [pre EXCEPT !.listener_status[call.listener] = ERROR]
          /\ writes = <<Write("listener", call.listener,
                              "provisioning_status", ERROR)>>

C2_Witness ==
    /\ Is("AmphoraFinalize", "revert")
    /\ call.result = "Failure"
    /\ call.fault = "none"
    /\ pre.amp_status[call.amphora] = AMPHORA_ALLOCATED
    /\ db = pre

\* the store a second, identical invocation of the revert would leave
RevertAgain ==
    CASE call.task = "ListenerDelete" ->
            ListenerDelete_revert(db, call.listener, call.result,
                                  call.fault).db
      [] call.task = "AmphoraFinalize" ->
            AmphoraFinalize_revert(db, call.amphora, call.result,
                                   call.fault).db
      [] call.task = "AmphoraPostNetworkPlug" ->
            AmphoraPostNetworkPlug_revert(db, call.amphora, call.result,
                                          call.fault).db
      [] call.task = "AmphoraPostVIPPlug" ->
            AmphoraPostVIPPlug_revert(db, call.amphora, call.result,
                                      call.fault).db

\* the directly-owned entity (and for the VIP plug the owning load
\* balancer) of the reverted task has status ERROR in store d
OwnedInError(d) ==
    CASE call.task = "ListenerDelete" ->
            d.listener_status[call.listener] = ERROR
      [] call.task \in {"AmphoraFinalize", "AmphoraPostNetworkPlug"} ->
            d.amp_status[call.amphora] = ERROR
      [] call.task = "AmphoraPostVIPPlug" ->
            /\ d.amp_status[call.amphora] = ERROR
            /\ d.lb_exists => d.lb_status = ERROR

\* C3: revert of a single-target task invoked with a non-failure result
\* leaves the directly-owned entity in status ERROR; a second invocation
\* changes nothing more, and on an entity that is already ERROR the
\* invocation leaves the store as it was.
C3_RevertMarksErrorIdempotently ==
    (/\ call.task \in SingleTargetReverts
     /\ call.method = "revert"
     /\ call.result = "Value"
     /\ call.fault # "update_raises")
        => /\ outcome = "returned"
           /\ OwnedInError(db)
           /\ RevertAgain = db
           /\ OwnedInError(pre) => db = pre

C3_Witness ==
    /\ Is("AmphoraPostVIPPlug", "revert")
    /\ call.result = "Value"
    /\ call.fault = "none"
    /\ pre.lb_exists
    /\ pre.amp_status[call.amphora] = ERROR
    /\ pre.lb_status = ACTIVE
    /\ db.lb_status = ERROR
    /\ db.amp_status[call.amphora] = ERROR

\* C8: AmphoraUpdateVRRPInterface.execute over two ALLOCATED amphorae, the
\* driver raising a generic error for one of them: the returned collection
\* holds only the other amphora, as read back after its vrrp_interface was
\* written, and the failing amphora is ERROR in the store with its
\* vrrp_interface never written.
C8_VRRPResultHoldsSurvivorOnly ==
    (/\ Is("AmphoraUpdateVRRPInterface", "execute")
     /\ call.fault = "none"
     /\ pre.lb_exists
     /\ Cardinality(AllocatedBefore) = 2)
        => \A f \in AllocatedBefore : \A s \in AllocatedBefore \ {f} :
              (call.drv[f] = GenericException /\ call.drv[s] = "ok")
              => /\ outcome = "returned"
                 /\ result.kind = "loadbalancer"
                 /\ result.amphorae =
                        <<[id |-> s, status |-> AMPHORA_ALLOCATED,
                           vrrp_interface |-> Interface]>>
                 /\ result.amphorae[1] = amphora_repo_get(db, s)
                 /\ db.amp_status[f] = ERROR
                 /\ db.amp_vrrp[f] = pre.amp_vrrp[f]
                 /\ \A i \in 1..Len(writes) :
                        writes[i].id = f => writes[i].field = "status"

C8_Witness ==
    /\ Is("AmphoraUpdateVRRPInterface", "execute")
    /\ call.fault = "none"
    /\ pre.lb_exists
    /\ Cardinality(AllocatedBefore) = 2
    /\ \E f \in AllocatedBefore : \E s \in AllocatedBefore \ {f} :
          /\ call.drv[f] = GenericException
          /\ call.drv[s] = "ok"
          /\ pre.amp_vrrp[s] = None
          /\ pre.amp_vrrp[f] = None
          /\ Len(result.amphorae) = 1
          /\ result.amphorae[1].id = s
          /\ result.amphorae[1].vrrp_interface = Interface
          /\ db.amp_status[f] = ERROR

\* C9 (as stated): AmphoraUpdateVRRPInterface.revert invoked with a
\* non-failure result marks every amphora that is still ALLOCATED ERROR and
\* leaves the others as they are.
C9_VRRPRevertMarksAllocatedError ==
    (/\ Is("AmphoraUpdateVRRPInterface", "revert")
     /\ call.result = "Value"
     /\ call.fault = "none"
     /\ pre.lb_exists)
        => /\ \A a \in AllocatedBefore : db.amp_status[a] = ERROR
           /\ \A a \in Amps \ AllocatedBefore :
                 amphora_repo_get(db, a) = amphora_repo_get(pre, a)

\* C9 (amended): AmphoraUpdateVRRPInterface.revert invoked with a
\* non-failure result resets the vrrp_interface of every amphora that is
\* still ALLOCATED to None and writes no status; amphorae that are not
\* ALLOCATED (such as those already ERROR) are left as they are.
C9_VRRPRevertClearsInterface ==
    (/\ Is("AmphoraUpdateVRRPInterface", "revert")
     /\ call.result = "Value"
     /\ call.fault = "none"
     /\ pre.lb_exists)
        => /\ outcome = "returned"
           /\ \A a \in AllocatedBefore : db.amp_vrrp[a] = None
           /\ StatusWrites = <<>>
           /\ SameStatuses
           /\ \A a \in Amps \ AllocatedBefore :
                 amphora_repo_get(db, a) = amphora_repo_get(pre, a)

C9_Witness ==
    /\ Is("AmphoraUpdateVRRPInterface", "revert")
    /\ call.result = "Value"
    /\ call.fault = "none"
    /\ pre.lb_exists
    /\ \E a \in Amps : \E e \in Amps :
          /\ pre.amp_status[a] = AMPHORA_ALLOCATED
          /\ pre.amp_vrrp[a] = Interface
          /\ db.amp_vrrp[a] = None
          /\ db.amp_status[a] = AMPHORA_ALLOCATED
          /\ pre.amp_status[e] = ERROR
          /\ pre.amp_vrrp[e] = Interface
          /\ db.amp_vrrp[e] = Interface

\* C10: revert of a composite fan-out task (AmphoraePostNetworkPlug,
\* AmphoraePostVIPPlug) invoked with a non-failure result marks every
\* amphora of the load balancer that is still ALLOCATED ERROR; invoked with
\* a failure marker it writes nothing.
C10_CompositeRevertMarksAllocatedError ==
    (/\ call.task \in {"AmphoraePostNetworkPlug", "AmphoraePostVIPPlug"}
     /\ call.method = "revert"
     /\ call.fault = "none"
     /\ pre.lb_exists)
        => /\ call.result = "Value"
              => \A a \in AllocatedBefore : db.amp_status[a] = ERROR
           /\ call.result = "Failure" => (writes = <<>> /\ db = pre)

\* C11: once the stored status of an amphora is ERROR, no task invocation
\* of this module writes a different status to it.
C11_ErrorIsTerminal ==
    [][\A a \in Amps :
          db.amp_status[a] = ERROR => db'.amp_status[a] = ERROR]_vars

C11_Witness ==
    /\ call.method = "execute"
    /\ \E a \in Amps :
          /\ pre.amp_status[a] = ERROR
          /\ \E i \in 1..Len(writes) :
                writes[i].entity = "amphora" /\ writes[i].id = a
          /\ db.amp_status[a] = ERROR

\* C12: AmphoraComputeConnectivityWait.execute, when get_info raises
\* TimeOutException: the amphora's status is written ERROR and the same
\* exception is raised to the caller.
C12_TimeoutMarksErrorAndRaises ==
    (/\ Is("AmphoraComputeConnectivityWait", "execute")
     /\ call.fault = "none"
     /\ call.drv[1] = TimeOutException)
        => /\ outcome = "raised"
           /\ exc = TimeOutException
           /\ writes = <<Write("amphora", call.amphora, "status", ERROR)>>
           /\ db = [pre EXCEPT !.amp_status[call.amphora] = ERROR]

C12_Witness ==
    /\ Is("AmphoraComputeConnectivityWait", "execute")
    /\ call.fault = "none"
    /\ call.drv[1] = TimeOutException
    /\ pre.amp_status[call.amphora] = AMPHORA_READY
    /\ db.amp_status[call.amphora] = ERROR
    /\ exc = TimeOutException

\* C13 (as stated): AmphoraComputeConnectivityWait.execute, when get_info
\* succeeds, returns the info payload of the driver and updates no status.
C13_SuccessReturnsPayload ==
    (/\ Is("AmphoraComputeConnectivityWait", "execute")
     /\ call.fault = "none"
     /\ call.drv[1] = "ok")
        => /\ outcome = "returned"
           /\ result.kind = "amp_info"
           /\ StatusWrites = <<>>

\* C13 (amended): AmphoraComputeConnectivityWait.execute, when get_info
\* succeeds, returns normally with no value (the payload is only logged)
\* and updates nothing in the store.
C13_SuccessReturnsNothing ==
    (/\ Is("AmphoraComputeConnectivityWait", "execute")
     /\ call.fault = "none"
     /\ call.drv[1] = "ok")
        => /\ outcome = "returned"
           /\ result = NoResult
           /\ writes = <<>>
           /\ db = pre
           /\ calls = <<DriverCall("get_info", call.amphora, "")>>

C13_Witness ==
    /\ Is("AmphoraComputeConnectivityWait", "execute")
    /\ call.fault = "none"
    /\ call.drv[1] = "ok"
    /\ outcome = "returned"
    /\ pre.amp_status[call.amphora] = AMPHORA_READY
    /\ db.amp_status[call.amphora] = AMPHORA_READY

\* C14: AmphoraConfigUpdate.execute returns normally and changes no status
\* when the driver raises AmpDriverNotImplementedError; any other driver
\* error propagates to the caller.
C14_NotImplementedIsTolerated ==
    (Is("AmphoraConfigUpdate", "execute") /\ call.fault = "none")
        => /\ db = pre
           /\ writes = <<>>
           /\ call.drv[1] = AmpDriverNotImplementedError
                 => outcome = "returned"
           /\ call.drv[1] \in DriverErrors \ {AmpDriverNotImplementedError}
                 => outcome = "raised" /\ exc = call.drv[1]

C14_Witness ==
    /\ Is("AmphoraConfigUpdate", "execute")
    /\ call.fault = "none"
    /\ call.drv[1] = AmpDriverNotImplementedError
    /\ outcome = "returned"
    /\ Len(calls) = 2
    /\ calls[2].op = "update_amphora_agent_config"

\* the topology AmphoraConfigUpdate.execute built the agent configuration for
BuiltTopology == calls[1].arg

\* C15: AmphoraConfigUpdate uses the process default topology when the
\* flavor is None, empty or has no loadbalancer_topology key, and the
\* flavor's value whenever the key is present.
C15_TopologySelection ==
    Is("AmphoraConfigUpdate", "execute")
        => /\ Len(calls) >= 1
           /\ calls[1].op = "build_agent_config"
           /\ BuiltTopology =
                 IF call.flavor.has_topology THEN call.flavor.topology
                 ELSE call.conf_topology

C15_Witness ==
    /\ Is("AmphoraConfigUpdate", "execute")
    /\ call.flavor.has_topology
    /\ call.flavor.topology # call.conf_topology
    /\ BuiltTopology = call.flavor.topology

\* C16: ListenersUpdate.execute, when the load balancer id is not found in
\* the store: the driver update is not invoked, nothing is written and
\* execute returns without raising.
C16_MissingLoadBalancerSkipsUpdate ==
    (/\ Is("ListenersUpdate", "execute")
     /\ call.fault = "none"
     /\ ~pre.lb_exists)
        => /\ outcome = "returned"
           /\ calls = <<>>
           /\ writes = <<>>
           /\ db = pre

C16_Witness ==
    /\ Is("ListenersUpdate", "execute")
    /\ call.fault = "none"
    /\ ~pre.lb_exists
    /\ call.drv[1] # "ok"
    /\ outcome = "returned"
    /\ calls = <<>>

\* C17: no revert raises, whatever the store holds (the load balancer
\* record may be missing) and also when the store's update fails.
C17_RevertNeverRaises ==
    (call.method = "revert" /\ call.fault # "get_raises")
        => outcome = "returned"

\* C18: AmpListenersUpdate.execute does not cause a revert: when a store
\* read or the driver call inside it fails, execute returns normally, the
\* amphora at amphora_index is marked ERROR and the status of no other
\* amphora is written.
C18_ListenersUpdateFailureIsAbsorbed ==
    (/\ Is("AmpListenersUpdate", "execute")
     /\ call.fault # "update_raises"
     /\ (call.fault = "get_raises" \/ call.drv[1] \in DriverErrors))
        => /\ call.amphora = lb_amphorae[call.amphora_index + 1]
           /\ OnlyMarkedError(call.amphora)
           /\ exc = None

C18_Witness ==
    /\ Is("AmpListenersUpdate", "execute")
    /\ call.fault = "get_raises"
    /\ call.amphora_index = 1
    /\ pre.amp_status[call.amphora] = AMPHORA_ALLOCATED
    /\ db.amp_status[call.amphora] = ERROR
    /\ outcome = "returned"

\* the position of amphora a in db_lb.amphorae
Pos(a) == CHOOSE i \in 1..Len(lb_amphorae) : lb_amphorae[i] = a
\* the amphorae a composite execute has to notify, and those whose driver
\* call fails
CompositeTargets ==
    IF call.task = "AmphoraePostNetworkPlug"
    THEN {a \in Amps : a \in call.added_ports}
    ELSE Amps
FailingTargets == {a \in CompositeTargets : call.drv[a] # "ok"}
CalledAmps == {calls[i].amphora : i \in 1..Len(calls)}
FirstFailing ==
    CHOOSE f \in FailingTargets : \A g \in FailingTargets : Pos(f) <= Pos(g)

\* C19: AmphoraePostNetworkPlug.execute and AmphoraePostVIPPlug.execute call
\* the single-target execute one amphora at a time in collection order (the
\* network plug only for the amphorae whose id is a key of added_ports); the
\* first failure propagates and no driver call is made for a later amphora.
C19_CompositeExecuteFailsFast ==
    (/\ call.task \in {"AmphoraePostNetworkPlug", "AmphoraePostVIPPlug"}
     /\ call.method = "execute"
     /\ call.fault = "none"
     /\ pre.lb_exists)
        => /\ \A i, j \in 1..Len(calls) :
                 i < j => Pos(calls[i].amphora) <= Pos(calls[j].amphora)
           /\ CalledAmps \subseteq CompositeTargets
           /\ writes = <<>> /\ db = pre
           /\ FailingTargets = {}
                 => outcome = "returned" /\ CalledAmps = CompositeTargets
           /\ FailingTargets # {}
                 => /\ outcome = "raised"
                    /\ exc = call.drv[FirstFailing]
                    /\ calls[Len(calls)].amphora = FirstFailing
                    /\ CalledAmps = {a \in CompositeTargets :
                                        Pos(a) <= Pos(FirstFailing)}

C19_Witness ==
    /\ Is("AmphoraePostNetworkPlug", "execute")
    /\ call.fault = "none"
    /\ pre.lb_exists
    /\ call.added_ports = Amps
    /\ call.drv[1] = GenericException
    /\ call.drv[2] = "ok"
    /\ outcome = "raised"
    /\ CalledAmps = {1}

\* C20: when every attempt fails, whatever the failures are, the history
\* grows by one entry per attempt, on_failure answers RETRY at most
\* connection_max_retries times and REVERT_ALL after that, so the task is
\* executed at most connection_max_retries + 1 times and the flow
\* eventually aborts.
C20_RetryIsBounded ==
    /\ [][Len(history') = Len(history) + 1]_vars
    /\ [](/\ Len(history) <= ConnectionMaxRetries + 1
          /\ flow = "RUNNING" => Len(history) <= ConnectionMaxRetries
          /\ (history # <<>> /\ flow = "RUNNING") => decision = "RETRY"
          /\ flow = "REVERTED" => decision = "REVERT_ALL"
          /\ Len(history) = ConnectionMaxRetries + 1 => flow = "REVERTED")
    /\ <>[](flow = "REVERTED")

C20_Witness ==
    /\ Len(history) = ConnectionMaxRetries + 1
    /\ \A i \in 1..ConnectionMaxRetries :
          on_failure(SubSeq(history, 1, i)) = "RETRY"
    /\ decision = "REVERT_ALL"
    /\ flow = "REVERTED"

\* C21: under concurrent modification AmphoraUpdateVRRPInterface.execute
\* writes vrrp_interface to no amphora whose stored status is ERROR, and
\* every amphora of the collection it returns has status ALLOCATED, also
\* when another worker marks an amphora ERROR between the snapshot read and
\* the update and re-read of that amphora.
C21_ConcurrentErrorIsExcluded ==
    /\ pc.at = "get" => pc.stored # ERROR
    /\ pc.at = "done"
          => \A k \in 1..Len(result.amphorae) :
                 result.amphorae[k].status = AMPHORA_ALLOCATED

====
